---- MODULE Spec2Model ----
(***************************************************************************)
(* State-machine model of the chat-server content nodes: TextServer        *)
(* (src/src/text_server.rs) and MediaServer (src/src/media_server.rs).     *)
(* One instance of the model is one node: `server` says which of the two   *)
(* structs it is.  The node receives fragments and control commands, one   *)
(* at a time, from the Processor loop of the `common` crate; a completed   *)
(* message goes to handle_msg, a command to handle_command.               *)
(***************************************************************************)
EXTENDS Integers, Sequences, FiniteSets, TLC

(* ---------------------------------------------------------------- bounds *)
NumUuids == 2          \* content identifiers are Uuids 1..NumUuids
NumTitles == 2         \* titles are 1..NumTitles
MaxPending == 1        \* incomplete reassembly sessions tracked at once
MaxComplete == 2       \* messages reassembled in one run
MaxCalls == 3          \* handle_msg invocations counted in one run

\* The inputs' domains: the NodeIds of the peers and the session ids they use.
Peers == {1, 2}
Sessions == {1, 2}
Uuids == 1..NumUuids
Titles == 1..NumTitles

VARIABLES
    server,        \* "Text" (struct TextServer) or "Media" (struct MediaServer)
    state,         \* "Running", "Terminated" (loop left on Shutdown), "Panicked" (todo!() hit)
    neighbors,     \* routing_handler: the NodeIds of the Neighbor Table
    stored_files,  \* TextServer.stored_files : HashMap<Uuid, TextFile>
    stored_media,  \* MediaServer.stored_media : HashMap<Uuid, MediaFile>
    assembler,     \* FragmentAssembler: incomplete sessions and completed keys
    last,          \* the input processed by the last step and what the handler returned
    out,           \* the send_message calls made by the last step, in order
    ctrl_out,      \* what the last step put on controller_send
    to_vec_ok,     \* whether serde_json::to_vec returns Ok in this run
    tally,         \* per session key: requests handled and responses sent so far
    twin           \* a node of the other kind run side by side on the same inputs

vars == <<server, state, neighbors, stored_files, stored_media, assembler, last, out,
          ctrl_out, to_vec_ok, tally, twin>>

(* ------------------------------------------------------------ wire format *)
\* A byte string is a sequence of tokens <<tag, n>>; one token travels in one
\* fragment.  Textual identifiers: <<"uuid", n>> is the hyphenated text of
\* Uuid n, accepted by Uuid::parse_str; <<"zz", 0>> is a string that is no Uuid.
NoId == <<"", 0>>
IdStrings == ({"uuid"} \X Uuids) \cup {<<"zz", 0>>}

\* WebRequest, the enum matched in handle_msg.  MediaQuery's field is never
\* read by either server, so one value of it is enough.
WebRequest ==
    {[type |-> t, id |-> NoId] : t \in {"ServerTypeQuery", "TextFilesListQuery"}}
    \cup [type : {"FileQuery"}, id : IdStrings]
    \cup {[type |-> "MediaQuery", id |-> <<"uuid", 1>>]}

DecodeErr == [type |-> "Err", id |-> NoId]

\* serde_json::to_vec of a WebRequest (what the peers send).
Encode(req) ==
    IF req.id = NoId THEN << <<req.type, 0>> >> ELSE << <<req.type, 0>>, req.id >>

\* The byte strings peers send: every request, a truncated FileQuery and noise.
Wire == {Encode(r) : r \in WebRequest} \cup {<< <<"FileQuery", 0>> >>, << <<"noise", 0>> >>}

\* A decoder that falls back to the first variant when the bytes do not parse.
Decode_mut(msg) ==
    IF \E r \in WebRequest : Encode(r) = msg
    THEN CHOOSE r \in WebRequest : Encode(r) = msg
    ELSE [type |-> "ServerTypeQuery", id |-> NoId]

\* serde_json::from_slice::<WebRequest>(&msg): Ok(request) or Err.
Decode(msg) ==
    IF \E r \in WebRequest : Encode(r) = msg
    THEN CHOOSE r \in WebRequest : Encode(r) = msg
    ELSE DecodeErr

\* Uuid::parse_str: Ok(uuid) for the text of a Uuid; 0 stands for Err.
parse_str(s) == IF s[1] = "uuid" THEN s[2] ELSE 0

\* Display of a Uuid (the "{}" of format!): its hyphenated text.
UuidToString(u) == <<"uuid", u>>

(* ---------------------------------------------------------------- records *)
TextFile == [id : Uuids, title : Titles]
NoFile == [id |-> 0, title |-> 0]          \* Option::None of a record

\* serde_json::to_vec(text_file): the record's bytes.
SerializeFile(f) == <<[json |-> "TextFile", id |-> UuidToString(f.id), title |-> f.title]>>

\* A summary written with another separator than ':'.
Summary_mut(file) == [id |-> UuidToString(file.id), sep |-> "-", title |-> file.title]

\* format!("{}:{}", file.id, file.title)
Summary(file) == [id |-> UuidToString(file.id), sep |-> ":", title |-> file.title]

\* WebResponse, the enum the servers serialize.
Response(t, st, fs, fd, u) ==
    [type |-> t, server_type |-> st, files |-> fs, file_data |-> fd, uuid |-> u]
ServerTypeResponse(server_type) == Response("ServerType", server_type, <<>>, <<>>, 0)
TextFilesList(files) == Response("TextFilesList", "", files, <<>>, 0)
TextFileResponse(file_data) == Response("TextFile", "", <<>>, file_data, 0)
ErrorFileNotFound(uuid) == Response("ErrorFileNotFound", "", <<>>, <<>>, uuid)

\* serde_json::to_vec(&WebResponse): the response's bytes.
ToVec(response) == <<[json |-> "WebResponse", value |-> response]>>

(* ------------------------------------------------- FragmentAssembler (common) *)
\* A Fragment: index is 1-based here (0-based on the wire).
Empty == <<"empty", 0>>
Keys == Peers \X Sessions
Fragment(k, m, i) ==
    [origin |-> k[1], session_id |-> k[2], index |-> i, total |-> Len(m), payload |-> m[i]]

\* The fragments the transport may deliver: any fragment of any message a
\* peer sends, under any session key.
Fragments == UNION {{Fragment(k, m, i) : i \in 1..Len(m)} : k \in Keys, m \in Wire}

\* A new session's buffer: total slots, all empty.
RECURSIVE EmptySlots(_)
EmptySlots(total) == IF total = 0 THEN <<>> ELSE Append(EmptySlots(total - 1), Empty)

NoSessions == [k \in {} |-> <<>>]
EmptyAssembler == [sessions |-> NoSessions, complete |-> {}]

\* feed(fragment) -> Option<CompleteMessage>: the assembler afterwards, and the
\* completed message when this fragment filled the last empty slot.
\* An assembler that forgets the keys it has completed.
feed_mut(a, frag) ==
    LET k == <<frag.origin, frag.session_id>>
        old == IF k \in DOMAIN a.sessions THEN a.sessions[k]
               ELSE EmptySlots(frag.total)
        slots == [old EXCEPT ![frag.index] = frag.payload]
    IN  IF \A i \in 1..frag.total : slots[i] # Empty
        THEN [assembler |->
                [sessions |-> [j \in DOMAIN a.sessions \ {k} |-> a.sessions[j]],
                 complete |-> a.complete],
              done |-> TRUE, msg |-> slots]
        ELSE [assembler |->
                [sessions |-> [j \in DOMAIN a.sessions \cup {k} |->
                                  IF j = k THEN slots ELSE a.sessions[j]],
                 complete |-> a.complete],
              done |-> FALSE, msg |-> <<>>]

feed(a, frag) ==
    LET k == <<frag.origin, frag.session_id>>
        old == IF k \in DOMAIN a.sessions THEN a.sessions[k]
               ELSE EmptySlots(frag.total)
        slots == [old EXCEPT ![frag.index] = frag.payload]
    IN  IF k \in a.complete
        THEN [assembler |-> a, done |-> FALSE, msg |-> <<>>]
        ELSE IF \A i \in 1..frag.total : slots[i] # Empty
        THEN [assembler |->
                [sessions |-> [j \in DOMAIN a.sessions \ {k} |-> a.sessions[j]],
                 complete |-> a.complete \cup {k}],
              done |-> TRUE, msg |-> slots]
        ELSE [assembler |->
                [sessions |-> [j \in DOMAIN a.sessions \cup {k} |->
                                  IF j = k THEN slots ELSE a.sessions[j]],
                 complete |-> a.complete],
              done |-> FALSE, msg |-> <<>>]

(* ---------------------------------------------------- RoutingHandler (common) *)
\* send_message(&res, dest, Some(session_id)) -> Result<(), RoutingError>: the
\* call and its result.
send_message(res, dest, session_id) ==
    [dest |-> dest, session_id |-> session_id, payload |-> res,
     result |-> IF dest \in neighbors THEN "Ok" ELSE "RoutingError"]

add_neighbor(node_id) == neighbors \cup {node_id}
remove_neighbor(node_id) == neighbors \ {node_id}

(* ------------------------------------------------------------- TextServer *)
NoStore == [u \in {} |-> NoFile]

\* The orders in which a HashMap with key set S may be iterated.
Orders(S) == {o \in [1..Cardinality(S) -> S] : \A i, j \in DOMAIN o : o[i] = o[j] => i = j}

\* get_files_list(&self) -> Vec<String>: one summary per stored value, in the
\* map's iteration order (any order).
get_files_list ==
    {[i \in DOMAIN o |-> Summary(stored_files[o[i]])] : o \in Orders(DOMAIN stored_files)}

\* A lookup that returns the first stored record whatever the id asked for.
get_file_by_id_mut(file_id) ==
    IF file_id \in DOMAIN stored_files
    THEN stored_files[CHOOSE u \in DOMAIN stored_files : TRUE]
    ELSE NoFile

\* get_file_by_id(&self, file_id) -> Option<&TextFile>
get_file_by_id(file_id) ==
    IF file_id \in DOMAIN stored_files THEN stored_files[file_id] ELSE NoFile

\* The tag of the other server, as a copied handler would send it.
TextServerType_mut == "MediaServer"

\* ServerType::TextServer and ServerType::MediaServer, the tags each server sends.
TextServerType == "TextServer"
MediaServerType == "MediaServer"

\* A reply sent with no session id (None): the router picks a fresh one, 0 here.
Reply_mut(res, from, session_id) ==
    IF to_vec_ok THEN <<send_message(res, from, 0)>> ELSE <<>>

\* A reply sent twice.
Reply_twice(res, from, session_id) ==
    IF to_vec_ok
    THEN <<send_message(res, from, session_id), send_message(res, from, session_id)>>
    ELSE <<>>

\* if let Ok(res) = serde_json::to_vec(..) {
\*     let _ = self.routing_handler.send_message(&res, from, Some(session_id)); }
\* The calls made: none when to_vec returned Err.
Reply(res, from, session_id) ==
    IF to_vec_ok THEN <<send_message(res, from, session_id)>> ELSE <<>>

\* todo!(): the handler panics and the node's thread unwinds.
Panic == state' = "Panicked"

\* A handler that unwraps the Result of send_message: it panics on an Err.
Return_mut ==
    state' = IF \E i \in DOMAIN out' : out'[i].result = "RoutingError"
             THEN "Panicked" ELSE state

\* The handler returns; the Result of send_message was dropped by `let _ =`.
Return == state' = state

\* A FileQuery handler that answers nothing when the record is missing.
TextFileQuery_mut(uuid, from, session_id) ==
    IF get_file_by_id(uuid) # NoFile
    THEN Reply(ToVec(TextFileResponse(SerializeFile(get_file_by_id(uuid)))), from, session_id)
    ELSE <<>>

\* The answer to FileQuery { file_id } once file_id parsed to uuid.
TextFileQuery(uuid, from, session_id) ==
    IF get_file_by_id(uuid) # NoFile
    THEN Reply(ToVec(TextFileResponse(SerializeFile(get_file_by_id(uuid)))), from, session_id)
    ELSE Reply(ToVec(ErrorFileNotFound(uuid)), from, session_id)

\* TextServer::handle_msg(&mut self, msg, from, session_id)
TextHandleMsg(msg, from, session_id) ==
    LET req == Decode(msg) IN
    \/ /\ req = DecodeErr
       /\ out' = <<>>
       /\ Return
    \/ /\ req.type = "ServerTypeQuery"
       /\ out' = Reply(ToVec(ServerTypeResponse(TextServerType)), from, session_id)
       /\ Return
    \/ /\ req.type = "TextFilesListQuery"
       /\ \E files_list \in get_files_list :
            out' = Reply(ToVec(TextFilesList(files_list)), from, session_id)
       /\ Return
    \/ /\ req.type = "FileQuery"
       /\ parse_str(req.id) # 0
       /\ out' = TextFileQuery(parse_str(req.id), from, session_id)
       /\ Return
    \/ /\ req.type = "FileQuery"
       /\ parse_str(req.id) = 0
       /\ out' = <<>>
       /\ Panic
    \/ /\ req.type = "MediaQuery"
       /\ out' = <<>>
       /\ Panic

(* ------------------------------------------------------------ MediaServer *)
\* MediaServer::handle_msg(&mut self, msg, from, session_id)
MediaHandleMsg(msg, from, session_id) ==
    LET req == Decode(msg) IN
    \/ /\ req = DecodeErr
       /\ out' = <<>>
       /\ Return
    \/ /\ req.type = "ServerTypeQuery"
       /\ out' = Reply(ToVec(ServerTypeResponse(MediaServerType)), from, session_id)
       /\ Return
    \/ /\ req.type \in {"TextFilesListQuery", "FileQuery", "MediaQuery"}
       /\ out' = <<>>
       /\ Return

\* A handler that records the requester as a neighbor before answering.
handle_msg_mut(msg, from, session_id) ==
    /\ \/ server = "Text" /\ TextHandleMsg(msg, from, session_id)
       \/ server = "Media" /\ MediaHandleMsg(msg, from, session_id)
    /\ neighbors' = add_neighbor(from)
    /\ UNCHANGED <<stored_files, stored_media, ctrl_out>>

handle_msg(msg, from, session_id) ==
    /\ \/ server = "Text" /\ TextHandleMsg(msg, from, session_id)
       \/ server = "Media" /\ MediaHandleMsg(msg, from, session_id)
    /\ UNCHANGED <<neighbors, stored_files, stored_media, ctrl_out>>

(* ---------------------------------------------------------------- commands *)
\* What arrives on controller_recv as Box<dyn Any>: a NodeCommand, a WebCommand
\* or a value of another type.
Cmd(kind, type, arg) == [kind |-> kind, type |-> type, arg |-> arg]
NodeCommand ==
    {Cmd("NodeCommand", t, p) : t \in {"AddSender", "RemoveSender"}, p \in Peers}
    \cup {Cmd("NodeCommand", "Shutdown", 0)}
WebCommand ==
    {Cmd("WebCommand", t, 0) : t \in {"GetCachedFiles", "GetTextFiles", "GetMediaFiles"}}
    \cup {Cmd("WebCommand", t, 1) : t \in {"GetFile", "GetTextFile", "GetMediaFile"}}
OtherCommand == {Cmd("Other", "Other", 0)}
Commands == NodeCommand \cup WebCommand \cup OtherCommand
NoCmd == Cmd("", "", 0)

\* The match on NodeCommand, the same in both servers: the value handle_command
\* returns, and the Neighbor Table afterwards.
NodeCommandReturns(cmd) == cmd.type = "Shutdown"

\* A match whose RemoveSender arm was copied from the AddSender arm.
NodeCommandNeighbors_mut(cmd) ==
    IF cmd.type \in {"AddSender", "RemoveSender"} THEN add_neighbor(cmd.arg)
    ELSE neighbors

NodeCommandNeighbors(cmd) ==
    IF cmd.type = "AddSender" THEN add_neighbor(cmd.arg)
    ELSE IF cmd.type = "RemoveSender" THEN remove_neighbor(cmd.arg)
    ELSE neighbors

\* TextServer::handle_command(&mut self, cmd) -> bool; ret is what it returns,
\* "panic" when it does not return.
TextHandleCommand(cmd, ret) ==
    \/ /\ cmd.kind = "NodeCommand"
       /\ neighbors' = NodeCommandNeighbors(cmd)
       /\ ret = IF NodeCommandReturns(cmd) THEN "true" ELSE "false"
    \/ /\ cmd.kind = "WebCommand"
       /\ UNCHANGED neighbors
       /\ ret = "panic"
    \/ /\ cmd.kind = "Other"
       /\ UNCHANGED neighbors
       /\ ret = "false"

\* MediaServer::handle_command(&mut self, cmd) -> bool
MediaHandleCommand(cmd, ret) ==
    \/ /\ cmd.kind = "NodeCommand"
       /\ neighbors' = NodeCommandNeighbors(cmd)
       /\ ret = IF NodeCommandReturns(cmd) THEN "true" ELSE "false"
    \/ /\ cmd.kind \in {"WebCommand", "Other"}
       /\ UNCHANGED neighbors
       /\ ret = "false"

handle_command(cmd, ret) ==
    /\ \/ server = "Text" /\ TextHandleCommand(cmd, ret)
       \/ server = "Media" /\ MediaHandleCommand(cmd, ret)
    /\ out' = <<>>
    /\ ctrl_out' = <<>>
    /\ UNCHANGED <<stored_files, stored_media>>

(* -------------------------------------------- MediaServer's store methods *)
\* add_media_file(&mut self, media_file) and remove_media_file(&mut self,
\* media_id) are todo!(): a call panics.
add_media_file(media_file) == Panic /\ UNCHANGED stored_media
remove_media_file(media_id) == Panic /\ UNCHANGED stored_media

(* --------------------------------------------------------- the node's steps *)
Last(op, msg, from, session_id, cmd, ret, file) ==
    [op |-> op, msg |-> msg, from |-> from, session_id |-> session_id,
     cmd |-> cmd, ret |-> ret, file |-> file]
NoLast == Last("none", <<>>, 0, 0, NoCmd, "", NoFile)

Running == state = "Running"

\* The fragments the transport may deliver next: those that carry the total
\* their session (if any) was opened with.
Deliverable(frag) ==
    LET k == <<frag.origin, frag.session_id>> IN
    k \in DOMAIN assembler.sessions => Len(assembler.sessions[k]) = frag.total

\* A fragment arrives and completes no message: it is stored, or discarded
\* when its session is already complete.
RecvFragment(frag) ==
    LET r == feed(assembler, frag) IN
    /\ Running
    /\ Deliverable(frag)
    /\ ~r.done
    /\ Cardinality(DOMAIN r.assembler.sessions) <= MaxPending
    /\ assembler' = r.assembler
    /\ last' = Last("fragment", <<>>, 0, 0, NoCmd, "", NoFile)
    /\ out' = <<>>
    /\ UNCHANGED <<server, state, neighbors, stored_files, stored_media, ctrl_out>>

\* A fragment arrives and completes its message: handle_msg runs on it.
RecvMessage(frag) ==
    LET r == feed(assembler, frag) IN
    /\ Running
    /\ Deliverable(frag)
    /\ r.done
    /\ Cardinality(assembler.complete) < MaxComplete
    /\ assembler' = r.assembler
    /\ handle_msg(r.msg, frag.origin, frag.session_id)
    /\ last' = Last("msg", r.msg, frag.origin, frag.session_id, NoCmd,
                    IF state' = "Panicked" THEN "panic" ELSE "unit", NoFile)
    /\ UNCHANGED server

\* A command arrives on controller_recv: handle_command runs on it, and the
\* loop ends when it returns true.
RecvCommand(cmd) ==
    /\ Running
    /\ \E ret \in {"true", "false", "panic"} :
         /\ handle_command(cmd, ret)
         /\ state' = CASE ret = "true" -> "Terminated"
                       [] ret = "panic" -> "Panicked"
                       [] OTHER -> state
         /\ last' = Last("cmd", <<>>, 0, 0, cmd, ret, NoFile)
    /\ UNCHANGED <<server, assembler>>

\* What no step of a single node touches: the serializer's behaviour and the
\* bookkeeping of the other specifications.
Frame == UNCHANGED <<to_vec_ok, tally, twin>>

\* The owner of a MediaServer calls one of its public store methods.
AddMediaFile(media_file) ==
    /\ Running
    /\ server = "Media"
    /\ add_media_file(media_file)
    /\ last' = Last("add_media_file", <<>>, 0, 0, NoCmd, "panic", media_file)
    /\ out' = <<>>
    /\ UNCHANGED <<server, neighbors, stored_files, assembler, ctrl_out>>

RemoveMediaFile(media_id) ==
    /\ Running
    /\ server = "Media"
    /\ remove_media_file(media_id)
    /\ last' = Last("remove_media_file", <<>>, 0, 0, NoCmd, "panic", [id |-> media_id, title |-> 0])
    /\ out' = <<>>
    /\ UNCHANGED <<server, neighbors, stored_files, assembler, ctrl_out>>

\* No request counted yet; no node run side by side.
NoTally == [k \in Keys |-> [requests |-> 0, responses |-> 0]]
Input(op, msg, from, session_id, cmd) ==
    [op |-> op, msg |-> msg, from |-> from, session_id |-> session_id, cmd |-> cmd]
NoInput == Input("none", <<>>, 0, 0, NoCmd)
NoTwin == [server |-> "", state |-> "", neighbors |-> {}, out |-> <<>>, input |-> NoInput,
           phase |-> "none"]

\* TextServer::new / MediaServer::new: the neighbors given, an empty store, a
\* default assembler.
Init ==
    /\ server \in {"Text", "Media"}
    /\ state = "Running"
    /\ neighbors \in SUBSET Peers
    /\ stored_files = NoStore
    /\ stored_media = NoStore
    /\ assembler = EmptyAssembler
    /\ last = NoLast
    /\ out = <<>>
    /\ ctrl_out = <<>>
    /\ to_vec_ok = TRUE
    /\ tally = NoTally
    /\ twin = NoTwin

Next ==
    \/ \E frag \in Fragments : RecvFragment(frag) /\ Frame
    \/ \E frag \in Fragments : RecvMessage(frag) /\ Frame
    \/ \E cmd \in Commands : RecvCommand(cmd) /\ Frame
    \/ \E media_file \in TextFile : AddMediaFile(media_file) /\ Frame
    \/ \E media_id \in Uuids : RemoveMediaFile(media_id) /\ Frame

Spec == Init /\ [][Next]_vars

\* The Processor loop does not stall: while the node runs and input keeps
\* arriving, it keeps taking steps.
SpecLive == Spec /\ WF_vars(Next)

(* ------------------------------------------ handle_msg over any stored_files *)
\* The stores a TextServer may hold: each record under its own id.
Stores == UNION {[K -> TextFile] : K \in SUBSET Uuids}
WellKeyed(store) == \A u \in DOMAIN store : store[u].id = u

\* A node as constructed, but a TextServer's stored_files holds any well-keyed
\* set of records.  (stored_media has no working insert and stays empty.)
InitStore ==
    /\ server \in {"Text", "Media"}
    /\ state = "Running"
    /\ neighbors \in SUBSET Peers
    /\ stored_files \in {st \in Stores : WellKeyed(st) /\ (server = "Media" => st = NoStore)}
    /\ stored_media = NoStore
    /\ assembler = EmptyAssembler
    /\ last = NoLast
    /\ out = <<>>
    /\ ctrl_out = <<>>
    /\ to_vec_ok = TRUE
    /\ tally = NoTally
    /\ twin = NoTwin

\* handle_msg is called on a reassembled message msg of peer from.
CallHandleMsg(msg, from, session_id) ==
    /\ Running
    /\ handle_msg(msg, from, session_id)
    /\ last' = Last("msg", msg, from, session_id, NoCmd,
                    IF state' = "Panicked" THEN "panic" ELSE "unit", NoFile)
    /\ UNCHANGED <<server, assembler>>

NextStore ==
    \/ \E msg \in Wire, from \in Peers, session_id \in Sessions :
         CallHandleMsg(msg, from, session_id) /\ Frame
    \/ \E cmd \in Commands : RecvCommand(cmd) /\ Frame

SpecStore == InitStore /\ [][NextStore]_vars

(* ------------------------------------ requests and responses per session key *)
\* The number of calls in the sequence calls that are addressed to key k.
RECURSIVE CallsTo(_, _)
CallsTo(calls, k) ==
    IF calls = <<>> THEN 0
    ELSE (IF <<Head(calls).dest, Head(calls).session_id>> = k THEN 1 ELSE 0)
         + CallsTo(Tail(calls), k)

Handled == LET RECURSIVE Sum(_)
               Sum(S) == IF S = {} THEN 0
                         ELSE LET k == CHOOSE x \in S : TRUE
                              IN  tally[k].requests + Sum(S \ {k})
           IN  Sum(Keys)

\* handle_msg is called on a message of key <<from, session_id>>; the call and
\* the send_message calls it makes are counted under their keys.  The call is
\* direct, as in SpecStore, so a key may repeat.
CountHandleMsg(msg, from, session_id) ==
    /\ Handled < MaxCalls
    /\ CallHandleMsg(msg, from, session_id)
    /\ tally' = [k \in Keys |->
                   [requests |-> tally[k].requests
                                   + (IF k = <<from, session_id>> THEN 1 ELSE 0),
                    responses |-> tally[k].responses + CallsTo(out', k)]]
    /\ UNCHANGED <<to_vec_ok, twin>>

\* A command is handled in between: it sends nothing.
CountCommand(cmd) ==
    /\ RecvCommand(cmd)
    /\ tally' = [k \in Keys |->
                   [requests |-> tally[k].requests,
                    responses |-> tally[k].responses + CallsTo(out', k)]]
    /\ UNCHANGED <<to_vec_ok, twin>>

NextCount ==
    \/ \E msg \in Wire, from \in Peers, session_id \in Sessions :
         CountHandleMsg(msg, from, session_id)
    \/ \E cmd \in Commands : CountCommand(cmd)

SpecCount == Init /\ [][NextCount]_vars

(* ------------------------------------------- a text and a media node in step *)
\* The inputs given to both nodes: topology commands, administrative commands
\* and ServerTypeQuery requests.
PairInputs ==
    {Input("cmd", <<>>, 0, 0, cmd) : cmd \in NodeCommand \cup WebCommand}
    \cup {Input("msg", Encode([type |-> "ServerTypeQuery", id |-> NoId]), k[1], k[2], NoCmd) :
              k \in Keys}

\* A TextServer and a MediaServer constructed with the same neighbors.  The
\* node variables hold the node that takes its step next, twin the other one.
InitPair ==
    /\ server = "Text"
    /\ state = "Running"
    /\ neighbors \in SUBSET Peers
    /\ stored_files = NoStore
    /\ stored_media = NoStore
    /\ assembler = EmptyAssembler
    /\ last = NoLast
    /\ out = <<>>
    /\ ctrl_out = <<>>
    /\ to_vec_ok = TRUE
    /\ tally = NoTally
    /\ twin = [server |-> "Media", state |-> "Running", neighbors |-> neighbors,
               out |-> <<>>, input |-> NoInput, phase |-> "done"]

\* The node at hand is given the input x: its handler runs if the node is
\* still running; a node that has left its loop takes no input any more.
Handle(x) ==
    \/ x.op = "cmd" /\ RecvCommand(x.cmd)
    \/ x.op = "msg" /\ CallHandleMsg(x.msg, x.from, x.session_id)
    \/ /\ ~Running
       /\ out' = <<>>
       /\ UNCHANGED <<server, state, neighbors, stored_files, stored_media, assembler,
                      last, ctrl_out>>

\* The next input arrives and the first node handles it.
PairFirst(x) ==
    /\ twin.phase = "done"
    /\ Handle(x)
    /\ twin' = [twin EXCEPT !.input = x, !.phase = "first"]
    /\ UNCHANGED <<to_vec_ok, tally>>

\* Attention moves to the other node.
PairSwitch ==
    /\ twin.phase = "first"
    /\ server' = twin.server
    /\ state' = twin.state
    /\ neighbors' = twin.neighbors
    /\ out' = twin.out
    /\ twin' = [server |-> server, state |-> state, neighbors |-> neighbors, out |-> out,
                input |-> twin.input, phase |-> "second"]
    /\ UNCHANGED <<stored_files, stored_media, assembler, last, ctrl_out, to_vec_ok, tally>>

\* The other node handles the same input.
PairSecond ==
    /\ twin.phase = "second"
    /\ Handle(twin.input)
    /\ twin' = [twin EXCEPT !.phase = "done"]
    /\ UNCHANGED <<to_vec_ok, tally>>

NextPair ==
    \/ \E x \in PairInputs : PairFirst(x)
    \/ PairSwitch
    \/ PairSecond

SpecPair == InitPair /\ [][NextPair]_vars

(* -------------------------------------------- handle_msg when to_vec may fail *)
\* As InitStore, but serde_json::to_vec may return Err: the case the
\* `if let Ok(res)` of the handlers provides for.
InitSer ==
    /\ server \in {"Text", "Media"}
    /\ state = "Running"
    /\ neighbors \in SUBSET Peers
    /\ stored_files \in {st \in Stores : WellKeyed(st) /\ (server = "Media" => st = NoStore)}
    /\ stored_media = NoStore
    /\ assembler = EmptyAssembler
    /\ last = NoLast
    /\ out = <<>>
    /\ ctrl_out = <<>>
    /\ to_vec_ok \in BOOLEAN
    /\ tally = NoTally
    /\ twin = NoTwin

SpecSer == InitSer /\ [][NextStore]_vars

(* ================================================================== claims *)
\* The request handled by the last step, the store of the node, and the
\* response carried by a send_message call.
HandledMsg == last.op = "msg"
Req == Decode(last.msg)
NodeStore == IF server = "Text" THEN stored_files ELSE stored_media
ToRequester(call) == call.dest = last.from /\ call.session_id = last.session_id
ResponseOf(call) == call.payload[1].value
QueriedUuid == parse_str(Req.id)
Shutdown == last.op = "cmd" /\ last.cmd.type = "Shutdown"

\* C1: every response the server sends for a reassembled request is addressed
\* to the request's origin peer and carries the request's session id; nothing
\* is sent to another peer or under another session id, and nothing is sent
\* by a step that handled no request.
C1_ResponseToOrigin ==
    \A i \in DOMAIN out : HandledMsg /\ ToRequester(out[i])

\* A response is sent after a request of another peer, under another session
\* id, was handled before.
C1_Witness ==
    /\ HandledMsg
    /\ Len(out) = 1
    /\ \E k \in assembler.complete : k[1] # last.from /\ k[2] # last.session_id

\* C2: handling a ServerTypeQuery from peer p under session s sends exactly one
\* response, a ServerType carrying the kind of the node (TextServer at the text
\* node, MediaServer at the media node), to p under s, and the node keeps
\* running: whatever sessions are pending and whatever was handled before.
C2_ServerTypeQuery ==
    (HandledMsg /\ Req.type = "ServerTypeQuery") =>
        /\ Len(out) = 1
        /\ ToRequester(out[1])
        /\ ResponseOf(out[1]).type = "ServerType"
        /\ ResponseOf(out[1]).server_type =
              (IF server = "Text" THEN "TextServer" ELSE "MediaServer")
        /\ state = "Running"

\* A ServerTypeQuery is answered while a reassembly session is pending and
\* after another request was handled.
C2_Witness ==
    /\ HandledMsg
    /\ Req.type = "ServerTypeQuery"
    /\ Len(out) = 1
    /\ DOMAIN assembler.sessions # {}
    /\ Cardinality(assembler.complete) = 2

\* C3: no request and no control command other than Shutdown ends the node:
\* after handling any message or command the node is Running, unless the
\* command was Shutdown.
C3_OnlyShutdownTerminates ==
    (last.op \in {"msg", "cmd"} /\ ~Shutdown) => state = "Running"

\* C4: a FileQuery whose id is no valid UUID is answered with a format-error
\* response, sent to the requester under the request's session id.
C4_InvalidIdAnswered ==
    (HandledMsg /\ Req.type = "FileQuery" /\ QueriedUuid = 0) =>
        /\ Len(out) = 1
        /\ ToRequester(out[1])
        /\ ResponseOf(out[1]).type = "ErrorInvalidId"

\* A step that handles a FileQuery whose id parses to a Uuid that is no key of
\* the store `store` answers exactly ErrorFileNotFound of that Uuid to the
\* requester under the request's session id, and leaves both stores as they were.
NotFoundAnswered(store) ==
    LET req == Decode(last'.msg)
        uuid == parse_str(req.id)
    IN  (last'.op = "msg" /\ req.type = "FileQuery" /\ uuid # 0 /\ uuid \notin DOMAIN store) =>
            /\ Len(out') = 1
            /\ out'[1].dest = last'.from
            /\ out'[1].session_id = last'.session_id
            /\ out'[1].payload[1].value.type = "ErrorFileNotFound"
            /\ out'[1].payload[1].value.uuid = uuid
            /\ stored_files' = stored_files
            /\ stored_media' = stored_media

\* C5: at either node, a FileQuery whose id parses as a UUID that is not a key
\* of the node's content store yields an ErrorNotFound response carrying that
\* id, sent to the requester under the request's session id, and leaves the
\* store unchanged.
C5_NotFound == [][NotFoundAnswered(NodeStore)]_vars

\* C5 at the text node alone: a FileQuery whose id parses as a UUID that is not
\* a key of stored_files yields an ErrorFileNotFound response carrying that id,
\* sent to the requester under the request's session id, and leaves the store
\* unchanged.
C5_TextNotFound == [][server = "Text" => NotFoundAnswered(stored_files)]_vars

\* The text node holds a record and has answered ErrorFileNotFound to a
\* FileQuery for another id.
C5_Witness ==
    /\ server = "Text"
    /\ HandledMsg
    /\ Req.type = "FileQuery"
    /\ QueriedUuid # 0
    /\ QueriedUuid \notin DOMAIN stored_files
    /\ DOMAIN stored_files # {}
    /\ Len(out) = 1
    /\ ResponseOf(out[1]).type = "ErrorFileNotFound"

\* C6: the node is Running or Terminated and nothing else; handle_command
\* returns true exactly for Shutdown, and after any other command and after
\* any message the node is Running again.
C6_RunningOrTerminated ==
    /\ state \in {"Running", "Terminated"}
    /\ last.op = "cmd" => (last.ret = "true" <=> last.cmd.type = "Shutdown")
    /\ state = "Terminated" <=> Shutdown

\* C7: a FileQuery whose id parses as a UUID that is a key of the node's store
\* yields exactly one response, a TextFile whose payload is the serialized
\* record stored under that id, sent to the requester under the request's
\* session id.
C7_ItemFound ==
    (HandledMsg /\ Req.type = "FileQuery" /\ QueriedUuid \in DOMAIN NodeStore) =>
        /\ Len(out) = 1
        /\ ToRequester(out[1])
        /\ ResponseOf(out[1]).type = "TextFile"
        /\ ResponseOf(out[1]).file_data =
              <<[json |-> "TextFile", id |-> <<"uuid", QueriedUuid>>,
                 title |-> NodeStore[QueriedUuid].title]>>

\* A stored record is served while the store holds another record too.
C7_Witness ==
    /\ HandledMsg
    /\ Req.type = "FileQuery"
    /\ QueriedUuid \in DOMAIN stored_files
    /\ Cardinality(DOMAIN stored_files) = 2
    /\ Len(out) = 1

\* C8: at the text node a TextFilesListQuery yields exactly one response, a
\* TextFilesList holding one `id:title` summary for each stored record and
\* nothing else, sent to the requester under the request's session id.
C8_ListExact ==
    (server = "Text" /\ HandledMsg /\ Req.type = "TextFilesListQuery") =>
        /\ Len(out) = 1
        /\ ToRequester(out[1])
        /\ ResponseOf(out[1]).type = "TextFilesList"
        /\ LET files == ResponseOf(out[1]).files IN
             /\ Len(files) = Cardinality(DOMAIN stored_files)
             /\ \A u \in DOMAIN stored_files :
                  Cardinality({i \in DOMAIN files :
                      files[i] = [id |-> <<"uuid", stored_files[u].id>>, sep |-> ":",
                                  title |-> stored_files[u].title]}) = 1

\* The list of a store holding two records is served.
C8_Witness ==
    /\ server = "Text"
    /\ HandledMsg
    /\ Req.type = "TextFilesListQuery"
    /\ Cardinality(DOMAIN stored_files) = 2
    /\ Len(out) = 1
    /\ Len(ResponseOf(out[1]).files) = 2

\* C9: an administrative content command returns its result to the control
\* collaborator, sends nothing into the network and leaves the node Running.
C9_AdminReturnsResult ==
    (last.op = "cmd" /\ last.cmd.kind = "WebCommand") =>
        /\ ctrl_out # <<>>
        /\ out = <<>>
        /\ state = "Running"

\* C10: after insert(record), get(record.id) returns that record; after
\* remove(id), get(id) returns none; and the node goes on.
C10_StoreInsertRemove ==
    /\ last.op = "add_media_file" =>
          /\ state = "Running"
          /\ last.file.id \in DOMAIN stored_media
          /\ stored_media[last.file.id] = last.file
    /\ last.op = "remove_media_file" =>
          /\ state = "Running"
          /\ last.file.id \notin DOMAIN stored_media

Serializes ==
    /\ HandledMsg
    /\ \/ Req.type = "ServerTypeQuery"
       \/ server = "Text" /\ Req.type = "TextFilesListQuery"
       \/ server = "Text" /\ Req.type = "FileQuery" /\ QueriedUuid # 0

\* C12: when the response to a request cannot be serialized, the failure is
\* observable: an error response is sent or a diagnostic is emitted; the
\* request is not dropped without a trace.
C12_SerializationFailureObservable ==
    (Serializes /\ ~to_vec_ok) => (out # <<>> \/ ctrl_out # <<>>)

\* The kinds of request the node does not serve.
KindMismatch(req) ==
    \/ server = "Text" /\ req.type = "MediaQuery"
    \/ server = "Media" /\ req.type \in {"TextFilesListQuery", "FileQuery"}

\* What a handle_msg step for key k leaves alone when it only drops or refuses
\* the message: both stores, the Neighbor Table, and every reassembly session
\* (k's own was closed by the feed that completed the message).
HandlerLeavesAlone(k) ==
    /\ stored_files' = stored_files
    /\ stored_media' = stored_media
    /\ neighbors' = neighbors
    /\ assembler'.complete = assembler.complete \cup {k}
    /\ DOMAIN assembler'.sessions = DOMAIN assembler.sessions \ {k}
    /\ \A j \in DOMAIN assembler'.sessions : assembler'.sessions[j] = assembler.sessions[j]

\* C13: a query for a kind the node does not serve (MediaQuery at the text
\* node; TextFilesListQuery or FileQuery at the media node) is dropped with no
\* response or answered with one role-mismatch error; the stores, the Neighbor
\* Table and the reassembly sessions stay as they were and the node stays
\* Running.
C13_KindMismatch ==
    [][(last'.op = "msg" /\ KindMismatch(Decode(last'.msg))) =>
          /\ state' = "Running"
          /\ \/ out' = <<>>
             \/ Len(out') = 1 /\ out'[1].payload[1].value.type = "ErrorRoleMismatch"
          /\ HandlerLeavesAlone(<<last'.from, last'.session_id>>)]_vars

\* The indexes of session k for which a fragment is held.
Filled(k) ==
    IF k \in DOMAIN assembler.sessions
    THEN {i \in DOMAIN assembler.sessions[k] : assembler.sessions[k][i] # Empty}
    ELSE {}

C15_RemoveNeighbor ==
    [][/\ (last'.op = "cmd" /\ last'.cmd.type = "RemoveSender") =>
            /\ neighbors' = neighbors \ {last'.cmd.arg}
            /\ assembler' = assembler
            /\ stored_files' = stored_files
            /\ stored_media' = stored_media
            /\ last'.ret = "false"
            /\ state' = "Running"
       /\ \A i \in DOMAIN out' :
            out'[i].dest \notin neighbors' =>
                out'[i].result = "RoutingError" /\ state' = "Running"]_vars

\* A neighbor was removed while a reassembly session was pending and after a
\* request was handled.
C15_Witness ==
    /\ last.op = "cmd"
    /\ last.cmd.type = "RemoveSender"
    /\ last.cmd.arg \notin neighbors
    /\ DOMAIN assembler.sessions # {}
    /\ assembler.complete # {}
    /\ state = "Running"

\* C16: no handle_msg invocation changes a content store or the Neighbor
\* Table; the Neighbor Table changes only in a step that handles an AddSender
\* or RemoveSender command, and a store changes only in a step that calls an
\* insert or remove method of the store.
C16_DataPlaneReadOnly ==
    [][/\ last'.op = "msg" =>
            /\ neighbors' = neighbors
            /\ stored_files' = stored_files
            /\ stored_media' = stored_media
       /\ neighbors' # neighbors =>
            last'.op = "cmd" /\ last'.cmd.type \in {"AddSender", "RemoveSender"}
       /\ (stored_files' # stored_files \/ stored_media' # stored_media) =>
            last'.op \in {"add_media_file", "remove_media_file"}]_vars

\* A request of a peer that is no neighbor was handled and answered while
\* another session was pending.
C16_Witness ==
    /\ HandledMsg
    /\ Len(out) = 1
    /\ last.from \notin neighbors
    /\ DOMAIN assembler.sessions # {}

\* C17: the store of the text node gets populated: a run of the text node
\* reaches a state where stored_files is non-empty, a state where a
\* TextFilesListQuery was answered with a non-empty list, and a state where a
\* FileQuery was answered with a TextFile.
C17_StorePopulated ==
    server = "Text" =>
        /\ <>(stored_files # NoStore)
        /\ <>(HandledMsg /\ Req.type = "TextFilesListQuery" /\ Len(out) = 1
                /\ ResponseOf(out[1]).type = "TextFilesList"
                /\ ResponseOf(out[1]).files # <<>>)
        /\ <>(HandledMsg /\ Req.type = "FileQuery" /\ Len(out) = 1
                /\ ResponseOf(out[1]).type = "TextFile")

\* C17, what the source does instead: the stores of a node constructed by
\* new() are empty in every state; every list served is empty and no TextFile
\* is ever served.
C17_StoreStaysEmpty ==
    /\ stored_files = NoStore
    /\ stored_media = NoStore
    /\ \A i \in DOMAIN out :
          /\ ResponseOf(out[i]).type # "TextFile"
          /\ ResponseOf(out[i]).type = "TextFilesList" => ResponseOf(out[i]).files = <<>>

\* The text node served its (empty) list and then looked a file up in vain.
C17_Witness ==
    /\ server = "Text"
    /\ HandledMsg
    /\ Req.type = "FileQuery"
    /\ Len(out) = 1
    /\ ResponseOf(out[1]).type = "ErrorFileNotFound"
    /\ Cardinality(assembler.complete) = 2

\* C18: one invocation of handle_msg calls send_message at most once; so at
\* any time the number of responses sent to a key (origin, session id) is at
\* most the number of requests handled under that key.
C18_AtMostOneResponse ==
    /\ Len(out) <= 1
    /\ \A k \in Keys : tally[k].responses <= tally[k].requests

\* Under one key a request was answered and another was not; under another
\* key a request was answered.
C18_Witness ==
    \E k, j \in Keys :
        /\ k # j
        /\ tally[k].requests = 2
        /\ tally[k].responses = 1
        /\ tally[j].requests = 1
        /\ tally[j].responses = 1

\* The byte strings that are the encoding of no WebRequest.
Undecodable(msg) == \A r \in WebRequest : Encode(r) # msg

\* C19: a message that decodes to no WebRequest is dropped: nothing is sent
\* and the node runs on; a control value that is neither a NodeCommand nor a
\* WebCommand makes handle_command return false, and the node runs on.  In
\* both cases the stores, the Neighbor Table and the reassembly sessions stay
\* as they were.
C19_UninterpretableIgnored ==
    [][/\ (last'.op = "msg" /\ Undecodable(last'.msg)) =>
            /\ out' = <<>>
            /\ ctrl_out' = <<>>
            /\ state' = "Running"
            /\ HandlerLeavesAlone(<<last'.from, last'.session_id>>)
       /\ (last'.op = "cmd" /\ last'.cmd.kind = "Other") =>
            /\ last'.ret = "false"
            /\ out' = <<>>
            /\ state' = "Running"
            /\ neighbors' = neighbors
            /\ stored_files' = stored_files
            /\ stored_media' = stored_media
            /\ assembler' = assembler]_vars

\* A message that decodes to nothing was reassembled and dropped
\* while a session of another key was pending.
C19_Witness ==
    /\ HandledMsg
    /\ Undecodable(last.msg)
    /\ out = <<>>
    /\ state = "Running"
    /\ DOMAIN assembler.sessions # {}

\* A control value of a foreign type was handled while a session was pending.
C19_WitnessCommand ==
    /\ last.op = "cmd"
    /\ last.cmd.kind = "Other"
    /\ last.ret = "false"
    /\ DOMAIN assembler.sessions # {}
    /\ assembler.complete # {}

\* The peer and session id of each send_message call, what was sent apart
\* from the ServerType tag, and how the send ended.
Sent(calls) ==
    [i \in DOMAIN calls |->
        <<calls[i].dest, calls[i].session_id, calls[i].payload[1].value.type,
          calls[i].result>>]

\* Both nodes have handled the same inputs, and show the same: Neighbor
\* Table, Running or Terminated, and responses sent at the last step.
InStep ==
    /\ state \in {"Running", "Terminated"}
    /\ twin.state = state
    /\ twin.neighbors = neighbors
    /\ Sent(twin.out) = Sent(out)

\* C20: a text node and a media node given the same sequence of topology
\* commands, administrative commands and ServerTypeQuery requests have, after
\* each input, the same Neighbor Table and the same Running/Terminated state,
\* and have answered the same (peer, session id) pairs: they differ only in
\* the ServerType tag they send.
C20_Lockstep == twin.phase = "done" => InStep

\* C20, as far as the source goes: the two nodes stay in step until the text
\* node panics.
C20_LockstepUntilPanic ==
    (twin.phase = "done" /\ state # "Panicked" /\ twin.state # "Panicked") => InStep

\* Both nodes answered the same ServerTypeQuery, each with its own tag.
C20_Witness ==
    /\ twin.phase = "done"
    /\ Len(out) = 1
    /\ Len(twin.out) = 1
    /\ ResponseOf(out[1]).server_type # ResponseOf(twin.out[1]).server_type
    /\ InStep

====
